---- MODULE Spec2Model ----
(***************************************************************************)
(* Debate / validation control core of the Pharma multi-agent debate       *)
(* system: VisibleDebateManager, HumanValidationManager, VisiblePipeline   *)
(* (ARCHITECTURE_FINALE_DEBAT_VISIBLE.md) and KillSwitchManager,           *)
(* MultiAgentWorkflow (start_ollama_optimized.bat).                        *)
(***************************************************************************)
EXTENDS Integers, Sequences, FiniteSets, TLC

(***************************************************************************)
(* Bounds of the model                                                     *)
(***************************************************************************)
\* largest max_rounds a manager is constructed with
MaxRoundLimit == 4
\* conduct_round is no longer called once current_round has reached this
RoundCap == 5
\* number of checkpoints (uuid4 values) request_validation may create
MaxCheckpoints == 2
\* the monitor loop is followed for this many 500ms polls
MaxPolls == 62
\* number of entries a logger's trace_storage may hold
MaxLogEntries == 11
\* the votes one VotingSystem conducts
MaxVotes == 1
\* the sockets one WebSocketService creates
MaxSockets == 7
\* the runs of DebateChat's subscription effect
MaxEffectRuns == 2
\* the server messages a DebateChat receives
MaxReceived == 2

(***************************************************************************)
(* Finite universes the inputs are drawn from                              *)
(***************************************************************************)
ExpertIds == {"e1", "e2"}
\* the word sets an expert answer may have; "dose" is not longer than 4 letters
Contents == {{"dose"}, {"dose", "toxicity"}}
Callers == {"c1", "c2"}
Traces == {"t1", "t2"}

VARIABLES
    \* VisibleDebateManager
    max_rounds, current_round, current_phase, participants, judge_registered,
    messages_count, messages, forced_conclusion,
    \* HumanValidationManager
    checkpoints, futures, pending_validations, validation_history,
    hv_pc, hv_checkpoint, hv_decision, hv_error, human_log,
    \* VisiblePipeline
    pl_pc, stage_results, human_decision,
    \* KillSwitchManager, CentralLogOrchestrator, MultiAgentWorkflow
    status, duration_ms, iteration_count, kill_events, spans,
    validation_status, wf_pc, mon_pc,
    \* PharmaMultiAgentLogger: the input hashes of the entries of trace_storage
    trace_storage,
    \* MultiProviderOrchestrator.challenge_providers
    ch_pc, tasks, attempts, responses,
    \* the conduct_round coroutines in progress: the branch each one is in
    \* and the position of its loop over the participants
    cr_pc, cr_next,
    \* VotingSystem: its two fields, and how the last conduct_vote call
    \* ended and which of its voters gave no response
    voting_history, agent_performance, vote_outcome, vote_missing,
    \* WebSocketService: the readyState of this.socket ("null" without one),
    \* the sockets it let go of whose close event is still to come, the
    \* sockets created so far, the pending setTimeout callbacks, whether the
    \* last close gave up reconnecting, whether disconnect() was the last
    \* call made from outside, and the reconnections scheduled since the
    \* last open and since the last open or reconnect()
    readyState, orphans, created, isConnecting, reconnectAttempts, timers,
    listeners, gave_up, closed_by_user, scheduled,
    \* DebateChat: its message list, the runs of its subscription effect,
    \* the types of the server messages received, and what became of the
    \* last decision
    chat_messages, validationRequired, effect_runs, received,
    decision_outcome

debateVars == <<max_rounds, current_round, current_phase, participants,
                judge_registered, messages_count, messages, forced_conclusion>>
gateVars == <<checkpoints, futures, pending_validations, validation_history,
              hv_pc, hv_checkpoint, hv_decision, hv_error, human_log>>
pipelineVars == <<pl_pc, stage_results, human_decision>>
workflowVars == <<status, duration_ms, iteration_count, kill_events, spans,
                  validation_status, wf_pc, mon_pc>>
loggerVars == <<trace_storage>>
orchestratorVars == <<ch_pc, tasks, attempts, responses>>
taskVars == <<cr_pc, cr_next>>
votingVars == <<voting_history, agent_performance, vote_outcome,
                vote_missing>>
socketVars == <<readyState, orphans, created, isConnecting,
                reconnectAttempts, timers, listeners, gave_up,
                closed_by_user, scheduled>>
chatVars == <<chat_messages, validationRequired, effect_runs, received,
              decision_outcome>>
vars == <<debateVars, gateVars, pipelineVars, workflowVars, loggerVars,
          orchestratorVars, taskVars, votingVars, socketVars, chatVars>>

(***************************************************************************)
(* VisibleDebateManager                                                    *)
(***************************************************************************)
DebatePhase == {"initialization", "opening_statements", "argumentation",
                "voting", "human_validation", "synthesis", "final_validation"}

\* participants.items() is walked in this order
ExpertOrder == <<"e1", "e2">>

DebateMessage(agent_id, content, round, phase) ==
    [agent_id |-> agent_id, role |-> "expert", content |-> content,
     round |-> round, phase |-> phase]

\* the messages one pass over the registered experts appends
RECURSIVE RoundMessages(_, _, _, _, _)
RoundMessages(i, experts, contents, round, phase) ==
    IF i > Len(ExpertOrder) THEN <<>>
    ELSE LET e == ExpertOrder[i] IN
         (IF e \in experts
             THEN <<DebateMessage(e, contents[e], round, phase)>>
             ELSE <<>>)
         \o RoundMessages(i + 1, experts, contents, round, phase)

get_expert_statement(msgs, experts, contents, round, phase) ==
    msgs \o RoundMessages(1, experts, contents, round, phase)

get_expert_argument(msgs, experts, contents, round, phase) ==
    get_expert_statement(msgs, experts, contents, round, phase)

\* keywords = {w for w in words if len(w) > 4}
Keywords(content) == {w \in content : Len(w) > 4}

Last3(msgs) ==
    IF Len(msgs) <= 3 THEN msgs ELSE SubSeq(msgs, Len(msgs) - 2, Len(msgs))

RECURSIVE SumSizes(_)
SumSizes(sets) ==
    IF sets = <<>> THEN 0 ELSE Cardinality(Head(sets)) + SumSizes(Tail(sets))

RECURSIVE Common(_)
Common(sets) ==
    IF Len(sets) = 1 THEN Head(sets) ELSE Head(sets) \cap Common(Tail(sets))

RECURSIVE KeywordSets(_)
KeywordSets(msgs) ==
    IF msgs = <<>> THEN <<>>
    ELSE (IF Head(msgs).role = "expert"
             THEN <<Keywords(Head(msgs).content)>> ELSE <<>>)
         \o KeywordSets(Tail(msgs))

\* detect_consensus were it to look at the two most recent messages only
detect_consensus_two_recent(msgs) ==
    LET recent == IF Len(msgs) <= 2 THEN msgs
                  ELSE SubSeq(msgs, Len(msgs) - 1, Len(msgs))
        sets == KeywordSets(recent)
    IN  IF Len(msgs) < 2 \/ sets = <<>> THEN <<0, 1>>
        ELSE LET n == Len(sets)
                 total == SumSizes(sets)
                 num == Cardinality(Common(sets)) * n
                 den == IF total > n THEN total ELSE n
             IN IF num > den THEN <<1, 1>> ELSE <<num, den>>

\* detect_consensus were it to look at every message of the session
detect_consensus_whole_session(msgs) ==
    LET sets == KeywordSets(msgs)
    IN  IF Len(msgs) < 2 \/ sets = <<>> THEN <<0, 1>>
        ELSE LET n == Len(sets)
                 total == SumSizes(sets)
                 num == Cardinality(Common(sets)) * n
                 den == IF total > n THEN total ELSE n
             IN IF num > den THEN <<1, 1>> ELSE <<num, den>>

\* detect_consensus were its "len(self.messages) < 2" test left out
detect_consensus_unguarded(msgs) ==
    LET sets == KeywordSets(Last3(msgs)) IN
    IF sets = <<>> THEN <<0, 1>>
    ELSE LET n == Len(sets)
             total == SumSizes(sets)
             num == Cardinality(Common(sets)) * n
             den == IF total > n THEN total ELSE n
         IN IF num > den THEN <<1, 1>> ELSE <<num, den>>

\* the consensus score as a fraction <<numerator, denominator>>
detect_consensus(msgs) ==
    IF Len(msgs) < 2 THEN <<0, 1>>
    ELSE LET sets == KeywordSets(Last3(msgs)) IN
         IF sets = <<>> THEN <<0, 1>>
         ELSE LET n == Len(sets)
                  total == SumSizes(sets)
                  \* len(common) / max(total / n, 1)
                  num == Cardinality(Common(sets)) * n
                  den == IF total > n THEN total ELSE n
              IN IF num > den THEN <<1, 1>> ELSE <<num, den>>

\* frac > a / b
FracGT(frac, a, b) == frac[1] * b > a * frac[2]

should_proceed_to_voting(round, msgs, divergenceHigh) ==
    \/ round >= 3
    \/ FracGT(detect_consensus(msgs), 8, 10)
    \/ divergenceHigh

initialize_debate(experts) ==
    /\ participants' = participants \cup experts
    /\ messages_count' = [e \in ExpertIds |->
                            IF e \in experts THEN 0 ELSE messages_count[e]]
    /\ judge_registered' = TRUE
    /\ current_phase' = "opening_statements"
    /\ UNCHANGED <<max_rounds, current_round, messages, forced_conclusion>>

\* the forced move to the vote when the round limit is reached
force_conclusion(reason) ==
    /\ forced_conclusion' = reason
    /\ current_phase' = IF current_phase = "argumentation" THEN "voting"
                        ELSE current_phase
    /\ UNCHANGED <<messages, messages_count>>

CountFor(e, experts) == IF e \in experts THEN 1 ELSE 0

\* one call of conduct_round
conduct_round_call(contents, divergenceHigh) ==
    /\ current_round' = current_round + 1
    /\ UNCHANGED <<max_rounds, participants, judge_registered>>
    /\ IF current_round + 1 > max_rounds
          THEN force_conclusion("Max rounds reached")
          ELSE /\ UNCHANGED forced_conclusion
               /\ CASE current_phase = "opening_statements" ->
                         /\ messages' = get_expert_statement(messages,
                                participants, contents, current_round + 1,
                                current_phase)
                         /\ messages_count' = [e \in ExpertIds |->
                                messages_count[e] + CountFor(e, participants)]
                         /\ current_phase' = "argumentation"
                    [] current_phase = "argumentation" ->
                         /\ messages' = get_expert_argument(messages,
                                participants, contents, current_round + 1,
                                current_phase)
                         /\ messages_count' = [e \in ExpertIds |->
                                messages_count[e] + CountFor(e, participants)]
                         /\ current_phase' =
                              IF should_proceed_to_voting(current_round + 1,
                                     messages', divergenceHigh)
                                 THEN "voting" ELSE "argumentation"
                    [] current_phase = "voting" ->
                         /\ current_phase' = "human_validation"
                         /\ UNCHANGED <<messages, messages_count>>
                    [] OTHER ->
                         UNCHANGED <<current_phase, messages, messages_count>>

\* conduct_round, called while the round number is below the cap
conduct_round(contents, divergenceHigh) ==
    /\ current_round < RoundCap
    /\ conduct_round_call(contents, divergenceHigh)

\* "max_rounds: int = 5"
DefaultMaxRounds == 5

InitDebate(limits) ==
    /\ max_rounds \in limits
    /\ current_round = 0
    /\ current_phase = "initialization"
    /\ participants = {}
    /\ judge_registered = FALSE
    /\ messages_count = [e \in ExpertIds |-> 0]
    /\ messages = <<>>
    /\ forced_conclusion = "none"

(***************************************************************************)
(* HumanValidationManager                                                  *)
(***************************************************************************)
\* ValidationDecision: member name -> value
ValidationDecision ==
    [APPROVE |-> "approve", REJECT |-> "reject",
     REQUEST_CLARIFICATION |-> "clarification",
     REQUEST_MORE_DEBATE |-> "more_debate",
     OVERRIDE_WITH_CUSTOM |-> "override"]

DecisionValues == {ValidationDecision[n] : n \in DOMAIN ValidationDecision}

\* the decision strings a client may send: the values the validation dialog
\* offers and the lower-case member names
DecisionStrings ==
    {"approve", "reject", "clarification", "more_debate", "override",
     "request_clarification", "request_more_debate", "override_with_custom"}

\* str.upper() on the strings above
Upper ==
    [approve |-> "APPROVE", reject |-> "REJECT",
     clarification |-> "CLARIFICATION", more_debate |-> "MORE_DEBATE",
     override |-> "OVERRIDE",
     request_clarification |-> "REQUEST_CLARIFICATION",
     request_more_debate |-> "REQUEST_MORE_DEBATE",
     override_with_custom |-> "OVERRIDE_WITH_CUSTOM"]

\* seconds request_validation waits for the human
ValidationTimeout == 300
\* the timeout default were it the approval
TimeoutDecisionApprove == ValidationDecision["APPROVE"]

TimeoutDecision == ValidationDecision["REQUEST_MORE_DEBATE"]
TimeoutNotes == "Timeout - defaulted to request more debate"

HumanValidationCheckpoint ==
    [decision |-> "None", validator_notes |-> "", validated |-> FALSE,
     resolved_by |-> "none"]

\* request_validation up to the moment the request is on the wire
request_validation(c) ==
    /\ hv_pc[c] = "idle"
    /\ Len(checkpoints) < MaxCheckpoints
    /\ checkpoints' = Append(checkpoints, HumanValidationCheckpoint)
    /\ futures' = Append(futures, "none")
    /\ hv_checkpoint' = [hv_checkpoint EXCEPT ![c] = Len(checkpoints) + 1]
    /\ hv_pc' = [hv_pc EXCEPT ![c] = "sent"]
    /\ UNCHANGED <<pending_validations, validation_history, hv_decision,
                   hv_error, human_log>>

\* wait_for_human_decision up to "await future"
wait_for_human_decision(c) ==
    /\ hv_pc[c] = "sent"
    /\ futures' = [futures EXCEPT ![hv_checkpoint[c]] = "pending"]
    /\ pending_validations' = pending_validations \cup {hv_checkpoint[c]}
    /\ hv_pc' = [hv_pc EXCEPT ![c] = "waiting"]
    /\ UNCHANGED <<checkpoints, validation_history, hv_checkpoint,
                   hv_decision, hv_error, human_log>>

\* the future has a result: the waiter resumes, cleans up and returns it
resume_waiter(c) ==
    /\ hv_pc[c] = "waiting"
    /\ futures[hv_checkpoint[c]] \in DecisionValues
    /\ pending_validations' = pending_validations \ {hv_checkpoint[c]}
    /\ hv_decision' = [hv_decision EXCEPT ![c] = futures[hv_checkpoint[c]]]
    /\ hv_pc' = [hv_pc EXCEPT ![c] = "decided"]
    /\ UNCHANGED <<checkpoints, futures, validation_history, hv_checkpoint,
                   hv_error, human_log>>

\* asyncio.wait_for gives up: the waiter is cancelled before it resumed, so
\* its clean-up line is not run
timeout_expires(c) ==
    /\ hv_pc[c] = "waiting"
    /\ futures' = [futures EXCEPT ![hv_checkpoint[c]] =
                      IF @ = "pending" THEN "cancelled" ELSE @]
    /\ hv_decision' = [hv_decision EXCEPT ![c] = TimeoutDecision]
    /\ hv_pc' = [hv_pc EXCEPT ![c] = "timed_out"]
    /\ UNCHANGED <<checkpoints, pending_validations, validation_history,
                   hv_checkpoint, hv_error, human_log>>

\* the end of request_validation: the checkpoint is filled in and filed
record_validation(c) ==
    /\ hv_pc[c] \in {"decided", "timed_out"}
    /\ checkpoints' = [checkpoints EXCEPT ![hv_checkpoint[c]] =
          [decision |-> hv_decision[c],
           validator_notes |-> IF hv_pc[c] = "timed_out" THEN TimeoutNotes
                               ELSE @.validator_notes,
           validated |-> TRUE,
           resolved_by |-> IF hv_pc[c] = "timed_out" THEN "timeout"
                           ELSE "human"]]
    /\ validation_history' = Append(validation_history, hv_checkpoint[c])
    /\ hv_pc' = [hv_pc EXCEPT ![c] = "idle"]
    /\ UNCHANGED <<futures, pending_validations, hv_checkpoint, hv_decision,
                   hv_error, human_log>>

\* receive_human_decision were the result stored without the future's
\* already-done check
receive_human_decision_overwrite(validation_id, decision) ==
    IF validation_id \notin pending_validations
       THEN /\ hv_error' = "none"
            /\ UNCHANGED <<checkpoints, futures, pending_validations,
                           validation_history, hv_pc, hv_checkpoint,
                           hv_decision, human_log>>
    ELSE IF Upper[decision] \notin DOMAIN ValidationDecision
       THEN /\ hv_error' = "KeyError"
            /\ UNCHANGED <<checkpoints, futures, pending_validations,
                           validation_history, hv_pc, hv_checkpoint,
                           hv_decision, human_log>>
    ELSE /\ futures' = [futures EXCEPT ![validation_id] =
                           ValidationDecision[Upper[decision]]]
         /\ human_log' = human_log \cup
                {<<validation_id, ValidationDecision[Upper[decision]]>>}
         /\ hv_error' = "none"
         /\ UNCHANGED <<checkpoints, pending_validations, validation_history,
                        hv_pc, hv_checkpoint, hv_decision>>

receive_human_decision(validation_id, decision) ==
    IF validation_id \notin pending_validations
       THEN /\ hv_error' = "none"
            /\ UNCHANGED <<checkpoints, futures, pending_validations,
                           validation_history, hv_pc, hv_checkpoint,
                           hv_decision, human_log>>
    ELSE IF Upper[decision] \notin DOMAIN ValidationDecision
       THEN /\ hv_error' = "KeyError"
            /\ UNCHANGED <<checkpoints, futures, pending_validations,
                           validation_history, hv_pc, hv_checkpoint,
                           hv_decision, human_log>>
    ELSE IF futures[validation_id] # "pending"
       THEN /\ hv_error' = "InvalidStateError"
            /\ UNCHANGED <<checkpoints, futures, pending_validations,
                           validation_history, hv_pc, hv_checkpoint,
                           hv_decision, human_log>>
    ELSE /\ futures' = [futures EXCEPT ![validation_id] =
                           ValidationDecision[Upper[decision]]]
         /\ human_log' = human_log \cup
                {<<validation_id, ValidationDecision[Upper[decision]]>>}
         /\ hv_error' = "none"
         /\ UNCHANGED <<checkpoints, pending_validations, validation_history,
                        hv_pc, hv_checkpoint, hv_decision>>

InitGate ==
    /\ checkpoints = <<>>
    /\ futures = <<>>
    /\ pending_validations = {}
    /\ validation_history = <<>>
    /\ hv_pc = [c \in Callers |-> "idle"]
    /\ hv_checkpoint = [c \in Callers |-> 0]
    /\ hv_decision = [c \in Callers |-> "None"]
    /\ hv_error = "none"
    /\ human_log = {}

(***************************************************************************)
(* VisiblePipeline                                                         *)
(***************************************************************************)
\* the caller of request_validation that stands for the pipeline
PipelineCaller == "c1"

extract_stage ==
    /\ pl_pc = "idle"
    /\ stage_results' = stage_results \cup {"extraction"}
    /\ pl_pc' = "extraction"
    /\ UNCHANGED human_decision

validate_stage ==
    /\ pl_pc = "extraction"
    /\ stage_results' = stage_results \cup {"validation"}
    /\ pl_pc' = "validation"
    /\ UNCHANGED human_decision

\* "human_decision = await self.request_human_validation(...)": the call
request_human_validation ==
    /\ pl_pc = "validation"
    /\ request_validation(PipelineCaller)
    /\ pl_pc' = "human_checkpoint"
    /\ UNCHANGED <<stage_results, human_decision>>

\* what process does with a decision that is not an approval
handle_rejection(decision) ==
    /\ pl_pc' = "rejected"
    /\ UNCHANGED stage_results

\* the test of process were it to stop on a rejection only
NotApprovedRejectOnly(decision) == decision = ValidationDecision["REJECT"]

\* "if human_decision != ValidationDecision.APPROVE"
NotApproved(decision) == decision # ValidationDecision["APPROVE"]

\* request_human_validation returns and process branches on the decision
process_decision ==
    /\ pl_pc = "human_checkpoint"
    /\ hv_pc[PipelineCaller] = "idle"
    /\ human_decision' = hv_decision[PipelineCaller]
    /\ IF NotApproved(hv_decision[PipelineCaller])
          THEN handle_rejection(hv_decision[PipelineCaller])
          ELSE /\ pl_pc' = "checkpoint_passed"
               /\ UNCHANGED stage_results

synthesis_stage ==
    /\ pl_pc = "checkpoint_passed"
    /\ stage_results' = stage_results \cup {"synthesis"}
    /\ pl_pc' = "synthesis"
    /\ UNCHANGED human_decision

sharing_stage ==
    /\ pl_pc = "synthesis"
    /\ stage_results' = stage_results \cup {"sharing"}
    /\ pl_pc' = "sharing"
    /\ UNCHANGED human_decision

InitPipeline ==
    /\ pl_pc = "idle"
    /\ stage_results = {}
    /\ human_decision = "None"

(***************************************************************************)
(* KillSwitchManager and MultiAgentWorkflow                                *)
(***************************************************************************)
\* kill_conditions
max_iterations == 50
max_duration_ms == 30000
max_memory_mb == 500
\* asyncio.sleep(0.5) of the monitor loop, in ms
PollIntervalMs == 500

\* what _get_memory_usage may report
MemoryReadings == {500, 501}

recovery_actions ==
    [MAX_DURATION_EXCEEDED |->
        "Simplifier la requete ou la diviser en sous-taches",
     MAX_ITERATIONS_EXCEEDED |->
        "Verifier les conditions de terminaison des agents",
     MEMORY_LIMIT_EXCEEDED |->
        "Reduire la taille du contexte ou optimiser les RAGs",
     INFINITE_LOOP_DETECTED |->
        "Reviser la logique de validation inter-agents"]

_get_recovery_action(reason) ==
    IF reason \in DOMAIN recovery_actions THEN recovery_actions[reason]
    ELSE "Contacter l'equipe support"

\* CentralLogOrchestrator.initialize_trace
initialize_trace(t) ==
    /\ wf_pc[t] = "idle"
    /\ validation_status' = [validation_status EXCEPT ![t] = "in_progress"]
    /\ wf_pc' = [wf_pc EXCEPT ![t] = "traced"]
    /\ UNCHANGED <<status, duration_ms, iteration_count, kill_events, spans,
                   mon_pc>>

\* KillSwitchManager.monitor_trace: the entry and the monitor task
monitor_trace(t) ==
    /\ wf_pc[t] = "traced"
    /\ status' = [status EXCEPT ![t] = "active"]
    /\ duration_ms' = [duration_ms EXCEPT ![t] = 0]
    /\ iteration_count' = [iteration_count EXCEPT ![t] = 0]
    /\ mon_pc' = [mon_pc EXCEPT ![t] = "loop"]
    /\ wf_pc' = [wf_pc EXCEPT ![t] = "monitored"]
    /\ UNCHANGED <<kill_events, spans, validation_status>>

\* the positions of process_request inside its try block, in order
TrySteps == <<"monitored", "rag_done", "gen_1", "gen_2", "gen_3",
              "critic_done", "resolved", "formatted">>
\* the span log_agent_response appends when the step at a position is taken
SpanOf == [rag_done |-> "gemini_1", gen_1 |-> "gemini_2",
           gen_2 |-> "gemini_3", gen_3 |-> "critic"]

PositionOf(pc) == CHOOSE i \in 1..Len(TrySteps) : TrySteps[i] = pc

\* one step of the try block other than the last: the awaited call returns
workflow_step(t) ==
    /\ wf_pc[t] \in {TrySteps[i] : i \in 1..(Len(TrySteps) - 1)}
    /\ wf_pc' = [wf_pc EXCEPT ![t] = TrySteps[PositionOf(wf_pc[t]) + 1]]
    /\ spans' = [spans EXCEPT ![t] =
                    IF wf_pc[t] \in DOMAIN SpanOf
                       THEN Append(@, SpanOf[wf_pc[t]]) ELSE @]
    /\ UNCHANGED <<status, duration_ms, iteration_count, kill_events,
                   validation_status, mon_pc>>

\* finalize_trace and the return of process_request
finalize_trace(t, result) ==
    /\ wf_pc[t] = "formatted"
    /\ validation_status' = [validation_status EXCEPT ![t] = result]
    /\ wf_pc' = [wf_pc EXCEPT ![t] = "returned"]
    /\ UNCHANGED <<status, duration_ms, iteration_count, kill_events, spans,
                   mon_pc>>

\* an awaited call of the try block raises: the except clause
workflow_error(t) ==
    /\ wf_pc[t] \in {TrySteps[i] : i \in 1..Len(TrySteps)}
    /\ status' = [status EXCEPT ![t] = "error"]
    /\ wf_pc' = [wf_pc EXCEPT ![t] = "raised"]
    /\ UNCHANGED <<duration_ms, iteration_count, kill_events, spans,
                   validation_status, mon_pc>>

\* _trigger_kill were it to mark every trace killed
_trigger_kill_all(t, reason) ==
    /\ status' = [u \in Traces |-> "killed"]
    /\ kill_events' = [kill_events EXCEPT ![t] =
          Append(@, [reason |-> reason,
                     recovery_action |-> _get_recovery_action(reason)])]

\* _trigger_kill were the kill event not built and logged
_trigger_kill_unrecorded(t, reason) ==
    /\ status' = [status EXCEPT ![t] = "killed"]
    /\ UNCHANGED kill_events

_trigger_kill(t, reason) ==
    /\ status' = [status EXCEPT ![t] = "killed"]
    /\ kill_events' = [kill_events EXCEPT ![t] =
          Append(@, [reason |-> reason,
                     recovery_action |-> _get_recovery_action(reason)])]

\* the head of the monitor loop: the while test, then the sleep begins
monitor_loop(t) ==
    /\ mon_pc[t] = "loop"
    /\ mon_pc' = [mon_pc EXCEPT ![t] =
                     IF status[t] = "active" THEN "sleeping" ELSE "stopped"]
    /\ UNCHANGED <<status, duration_ms, iteration_count, kill_events, spans,
                   validation_status, wf_pc>>

\* the poll were its duration check left out
monitor_check_no_duration(t, memory_usage) ==
    /\ mon_pc[t] = "sleeping"
    /\ duration_ms[t] < MaxPolls * PollIntervalMs
    /\ duration_ms' = [duration_ms EXCEPT ![t] = @ + PollIntervalMs]
    /\ IF iteration_count[t] > max_iterations
          THEN /\ _trigger_kill(t, "MAX_ITERATIONS_EXCEEDED")
               /\ mon_pc' = [mon_pc EXCEPT ![t] = "stopped"]
       ELSE IF memory_usage > max_memory_mb
          THEN /\ _trigger_kill(t, "MEMORY_LIMIT_EXCEEDED")
               /\ mon_pc' = [mon_pc EXCEPT ![t] = "stopped"]
       ELSE /\ mon_pc' = [mon_pc EXCEPT ![t] = "loop"]
            /\ UNCHANGED <<status, kill_events>>
    /\ UNCHANGED <<iteration_count, spans, validation_status, wf_pc>>

\* the sleep is over: the three checks of one poll
monitor_check(t, memory_usage) ==
    /\ mon_pc[t] = "sleeping"
    /\ duration_ms[t] < MaxPolls * PollIntervalMs
    /\ duration_ms' = [duration_ms EXCEPT ![t] = @ + PollIntervalMs]
    /\ IF duration_ms[t] + PollIntervalMs > max_duration_ms
          THEN /\ _trigger_kill(t, "MAX_DURATION_EXCEEDED")
               /\ mon_pc' = [mon_pc EXCEPT ![t] = "stopped"]
       ELSE IF iteration_count[t] > max_iterations
          THEN /\ _trigger_kill(t, "MAX_ITERATIONS_EXCEEDED")
               /\ mon_pc' = [mon_pc EXCEPT ![t] = "stopped"]
       ELSE IF memory_usage > max_memory_mb
          THEN /\ _trigger_kill(t, "MEMORY_LIMIT_EXCEEDED")
               /\ mon_pc' = [mon_pc EXCEPT ![t] = "stopped"]
       ELSE /\ mon_pc' = [mon_pc EXCEPT ![t] = "loop"]
            /\ UNCHANGED <<status, kill_events>>
    /\ UNCHANGED <<iteration_count, spans, validation_status, wf_pc>>

(***************************************************************************)
(* PharmaMultiAgentLogger                                                  *)
(***************************************************************************)
\* the values sha256(input_text)[:16] takes for the inputs that are logged
InputHashes == {"h1", "h2"}
\* "self.trace_storage[-10:]" and "len(self.trace_storage) > 10"
LoopWindow == 10
\* "len(set(recent_inputs)) < 3"
MinDistinctInputs == 3

\* the input hashes of the last n entries of a storage holding at least n
RecentInputs(storage, n) ==
    {storage[i] : i \in (Len(storage) - n + 1)..Len(storage)}

\* _detect_anomalies: is POTENTIAL_INFINITE_LOOP among the anomalies
_detect_anomalies(storage) ==
    /\ Len(storage) > LoopWindow
    /\ Cardinality(RecentInputs(storage, LoopWindow)) < MinDistinctInputs

\* _trigger_alert calls it for an INFINITE_LOOP anomaly
_activate_kill_switch(t) == _trigger_kill(t, "INFINITE_LOOP_DETECTED")

\* log_agent_interaction: the entry is stored, then checked for anomalies
log_agent_interaction(t, input_hash) ==
    /\ Len(trace_storage) < MaxLogEntries
    /\ trace_storage' = Append(trace_storage, input_hash)
    /\ IF _detect_anomalies(Append(trace_storage, input_hash))
          THEN _activate_kill_switch(t)
          ELSE UNCHANGED <<status, kill_events>>
    /\ UNCHANGED <<duration_ms, iteration_count, spans, validation_status,
                   wf_pc, mon_pc>>

InitLogger == trace_storage = <<>>

InitWorkflow ==
    /\ status = [t \in Traces |-> "none"]
    /\ duration_ms = [t \in Traces |-> 0]
    /\ iteration_count = [t \in Traces |-> 0]
    /\ kill_events = [t \in Traces |-> <<>>]
    /\ spans = [t \in Traces |-> <<>>]
    /\ validation_status = [t \in Traces |-> "none"]
    /\ wf_pc = [t \in Traces |-> "idle"]
    /\ mon_pc = [t \in Traces |-> "none"]

(***************************************************************************)
(* conduct_round as coroutines: the steps between its awaits               *)
(***************************************************************************)
\* the position of the first registered expert at or after position i
RECURSIVE ExpertFrom(_)
ExpertFrom(i) ==
    IF i > Len(ExpertOrder) THEN i
    ELSE IF ExpertOrder[i] \in participants THEN i
    ELSE ExpertFrom(i + 1)

\* the statements after the loop of a branch: the phase it leaves
phase_after(branch, msgs, divergenceHigh) ==
    IF branch = "opening_statements" THEN "argumentation"
    ELSE IF should_proceed_to_voting(current_round, msgs, divergenceHigh)
            THEN "voting"
    ELSE current_phase

\* conduct_round from its entry to its first await
conduct_round_enter(k, divergenceHigh) ==
    /\ cr_pc[k] = "idle"
    /\ current_round < RoundCap
    /\ current_round' = current_round + 1
    /\ UNCHANGED <<max_rounds, participants, judge_registered>>
    /\ IF current_round + 1 > max_rounds
          THEN /\ force_conclusion("Max rounds reached")
               /\ UNCHANGED <<cr_pc, cr_next>>
       ELSE IF current_phase \in {"opening_statements", "argumentation"}
          THEN /\ UNCHANGED <<forced_conclusion, messages, messages_count>>
               /\ IF ExpertFrom(1) > Len(ExpertOrder)
                     THEN /\ current_phase' =
                               IF current_phase = "opening_statements"
                                  THEN "argumentation"
                               ELSE IF should_proceed_to_voting(
                                          current_round + 1, messages,
                                          divergenceHigh)
                                       THEN "voting"
                               ELSE current_phase
                          /\ UNCHANGED <<cr_pc, cr_next>>
                     ELSE /\ cr_pc' = [cr_pc EXCEPT ![k] = current_phase]
                          /\ cr_next' = [cr_next EXCEPT ![k] = ExpertFrom(1)]
                          /\ UNCHANGED current_phase
       ELSE IF current_phase = "voting"
          THEN /\ cr_pc' = [cr_pc EXCEPT ![k] = "voting"]
               /\ UNCHANGED <<forced_conclusion, messages, messages_count,
                              current_phase, cr_next>>
       ELSE UNCHANGED <<forced_conclusion, messages, messages_count,
                        current_phase, cr_pc, cr_next>>

\* the LLM call of the expert at the loop position returns: the message is
\* built from the round and phase of that moment and appended; after the
\* last expert the branch ends
conduct_round_resume(k, content, divergenceHigh) ==
    /\ cr_pc[k] \in {"opening_statements", "argumentation"}
    /\ LET e == ExpertOrder[cr_next[k]]
           msgs == Append(messages,
                      DebateMessage(e, content, current_round, current_phase))
           next == ExpertFrom(cr_next[k] + 1)
       IN /\ messages' = msgs
          /\ messages_count' = [messages_count EXCEPT ![e] = @ + 1]
          /\ IF next > Len(ExpertOrder)
                THEN /\ current_phase' =
                           phase_after(cr_pc[k], msgs, divergenceHigh)
                     /\ cr_pc' = [cr_pc EXCEPT ![k] = "idle"]
                     /\ cr_next' = [cr_next EXCEPT ![k] = 1]
                ELSE /\ cr_next' = [cr_next EXCEPT ![k] = next]
                     /\ UNCHANGED <<current_phase, cr_pc>>
    /\ UNCHANGED <<max_rounds, current_round, participants,
                   judge_registered, forced_conclusion>>

\* conduct_voting returns: the end of the VOTING branch
conduct_round_voted(k) ==
    /\ cr_pc[k] = "voting"
    /\ current_phase' = "human_validation"
    /\ cr_pc' = [cr_pc EXCEPT ![k] = "idle"]
    /\ UNCHANGED <<max_rounds, current_round, participants,
                   judge_registered, forced_conclusion, messages,
                   messages_count, cr_next>>

InitTasks ==
    /\ cr_pc = [k \in Callers |-> "idle"]
    /\ cr_next = [k \in Callers |-> 1]

(***************************************************************************)
(* MultiProviderOrchestrator                                               *)
(***************************************************************************)
\* the providers that passed their health check, in the order of the dict
ProviderIds == {"ollama_llama3", "ollama_mistral", "gemini_pro"}
ProviderOrder == <<"ollama_llama3", "ollama_mistral", "gemini_pro">>

\* challenge_providers up to the first await: one task per provider
challenge_providers(provider_ids) ==
    /\ ch_pc \in {"idle", "returned"}
    /\ tasks' = [p \in ProviderIds |->
                    IF p \in provider_ids THEN "running" ELSE "none"]
    /\ attempts' = [p \in ProviderIds |->
                       IF p \in provider_ids THEN 1 ELSE 0]
    /\ responses' = [p \in ProviderIds |-> "none"]
    /\ ch_pc' = "awaiting"

\* _generate_with_timeout ends: a result, an exception of the provider, or
\* the TimeoutError of wait_for turned into an exception
_generate_with_timeout(p, outcome) ==
    /\ tasks[p] = "running"
    /\ tasks' = [tasks EXCEPT ![p] = outcome]
    /\ UNCHANGED <<ch_pc, attempts, responses>>

\* the providers whose task has not been awaited yet
NotAwaited == {p \in ProviderIds : tasks[p] # "none" /\ responses[p] = "none"}

NextAwaited ==
    ProviderOrder[CHOOSE i \in 1..Len(ProviderOrder) :
        /\ ProviderOrder[i] \in NotAwaited
        /\ \A j \in 1..(i - 1) : ProviderOrder[j] \notin NotAwaited]

\* "result = await task" and its except clause, for the next task in order
await_task ==
    /\ ch_pc = "awaiting"
    /\ NotAwaited # {}
    /\ tasks[NextAwaited] # "running"
    /\ responses' = [responses EXCEPT ![NextAwaited] =
                        IF tasks[NextAwaited] = "ok" THEN "ok" ELSE "error"]
    /\ UNCHANGED <<ch_pc, tasks, attempts>>

\* every task was awaited: the analysis, and the return
challenge_return ==
    /\ ch_pc = "awaiting"
    /\ NotAwaited = {}
    /\ ch_pc' = "returned"
    /\ UNCHANGED <<tasks, attempts, responses>>

InitOrchestrator ==
    /\ ch_pc = "idle"
    /\ tasks = [p \in ProviderIds |-> "none"]
    /\ attempts = [p \in ProviderIds |-> 0]
    /\ responses = [p \in ProviderIds |-> "none"]

(***************************************************************************)
(* VotingSystem: scores and weights are counted in hundredths, a quotient  *)
(* is the pair <<numerator, denominator>>                                  *)
(***************************************************************************)
VoterIds == {"e1", "e2", "judge"}
\* the messages put to the vote, each with the agent_id of its author
MessageAuthor == [m1 |-> "e1", m2 |-> "e2", m3 |-> "e3"]
\* what the weighted criteria of evaluate_message may add up to
RawScores == {80, 85, 90, 110}
\* the performance entries an expert may have; a voter without history has
\* none
HighPerformance == [historical_accuracy |-> 100, consistency_score |-> 100]
NoPerformance == [v \in {} |-> HighPerformance]
Performances ==
    UNION {[D -> {HighPerformance}] : D \in SUBSET (VoterIds \ {"judge"})}

RECURSIVE GCD(_, _)
GCD(a, b) == IF b = 0 THEN a ELSE GCD(b, a % b)

\* the sum of two quotients over their least common denominator
FracAdd(x, y) ==
    LET l == (x[2] \div GCD(x[2], y[2])) * y[2]
    IN  <<x[1] * (l \div x[2]) + y[1] * (l \div y[2]), l>>

\* the clamp that ends evaluate_message
evaluate_message(final_score) ==
    IF final_score < 0 THEN 0
    ELSE IF final_score > 100 THEN 100 ELSE final_score

\* get_voter_scores that also scores the voter's own messages
get_voter_scores_self_included(voter_id, message_ids, score) ==
    [m \in message_ids |-> [agent_id |-> MessageAuthor[m], score |-> score]]

get_voter_scores(voter_id, message_ids, score) ==
    [m \in {n \in message_ids : MessageAuthor[n] # voter_id} |->
        [agent_id |-> MessageAuthor[m], score |-> score]]

get_voter_weight(perf, voter_id) ==
    IF voter_id \notin DOMAIN perf THEN 100
    ELSE 50 + (perf[voter_id].historical_accuracy
               + perf[voter_id].consistency_score) \div 2

\* the messages a voting matrix has a vote for, and the voters of one
ScoredMessages(voting_matrix) ==
    UNION {DOMAIN voting_matrix[v] : v \in DOMAIN voting_matrix}
VotersOf(voting_matrix, m) ==
    {v \in DOMAIN voting_matrix : m \in DOMAIN voting_matrix[v]}

\* total_score of message m: the sum of score * voter_weight over the voters
RECURSIVE WeightedTotal(_, _, _, _)
WeightedTotal(voting_matrix, perf, m, voters) ==
    IF voters = {} THEN 0
    ELSE LET v == CHOOSE w \in voters : TRUE
         IN  voting_matrix[v][m].score * get_voter_weight(perf, v)
             + WeightedTotal(voting_matrix, perf, m, voters \ {v})

calculate_weighted_scores(voting_matrix, perf) ==
    [m \in ScoredMessages(voting_matrix) |->
        LET voters == VotersOf(voting_matrix, m)
            total_score == WeightedTotal(voting_matrix, perf, m, voters)
            vote_count == Cardinality(voters)
        IN  [total_score |-> total_score,
             vote_count |-> vote_count,
             voters |-> voters,
             average_score |-> <<total_score, vote_count * 100 * 100>>]]

\* the sum of the scores of message m, and of their squares
RECURSIVE ScoreSum(_, _, _, _)
ScoreSum(voting_matrix, m, voters, squared) ==
    IF voters = {} THEN 0
    ELSE LET v == CHOOSE w \in voters : TRUE
             s == voting_matrix[v][m].score
         IN  (IF squared THEN s * s ELSE s)
             + ScoreSum(voting_matrix, m, voters \ {v}, squared)

\* np.var of the scores of message m: the mean of the squared deviations
Variance(voting_matrix, m) ==
    LET voters == VotersOf(voting_matrix, m)
        n == Cardinality(voters)
        s1 == ScoreSum(voting_matrix, m, voters, FALSE)
        s2 == ScoreSum(voting_matrix, m, voters, TRUE)
    IN  <<n * s2 - s1 * s1, n * n * 100 * 100>>

RECURSIVE VarianceSum(_, _)
VarianceSum(voting_matrix, ms) ==
    IF ms = {} THEN <<0, 1>>
    ELSE LET m == CHOOSE n \in ms : TRUE
         IN  FracAdd(Variance(voting_matrix, m),
                     VarianceSum(voting_matrix, ms \ {m}))

\* 1.0 - min(avg_variance * 2, 1.0) for the variances of the messages ms
ConsensusOver(voting_matrix, ms) ==
    LET total == VarianceSum(voting_matrix, ms)
        avg_variance == <<total[1], total[2] * Cardinality(ms)>>
        doubled == 2 * avg_variance[1]
    IN  <<avg_variance[2] - (IF doubled < avg_variance[2]
                             THEN doubled ELSE avg_variance[2]),
          avg_variance[2]>>

calculate_consensus(voting_matrix) ==
    LET ms == {m \in ScoredMessages(voting_matrix) :
                  Cardinality(VotersOf(voting_matrix, m)) > 1}
    IN  IF Cardinality(DOMAIN voting_matrix) < 2 THEN <<0, 1>>
        ELSE IF ms = {} THEN <<0, 1>>
        ELSE ConsensusOver(voting_matrix, ms)

\* conduct_vote for the voters given, raw[v] being what voter v's criteria
\* add up to; the voters of silent give no response, so that the await on
\* their scores ends in an exception and the call with it
conduct_vote(voters, raw, silent) ==
    /\ Len(voting_history) < MaxVotes
    /\ vote_missing' = silent
    /\ IF silent # {}
       THEN /\ vote_outcome' = "raised"
            /\ UNCHANGED voting_history
       ELSE LET voting_matrix ==
                    [v \in voters |->
                        get_voter_scores(v, DOMAIN MessageAuthor,
                                         evaluate_message(raw[v]))]
                vote_record ==
                    [voting_matrix |-> voting_matrix,
                     final_scores |->
                        calculate_weighted_scores(voting_matrix,
                                                  agent_performance),
                     consensus_level |-> calculate_consensus(voting_matrix)]
            IN  /\ voting_history' = Append(voting_history, vote_record)
                /\ vote_outcome' = "recorded"
    /\ UNCHANGED agent_performance

InitVoting(performances) ==
    /\ voting_history = <<>>
    /\ agent_performance \in performances
    /\ vote_outcome = "none"
    /\ vote_missing = {}

(***************************************************************************)
(* WebSocketService                                                        *)
(***************************************************************************)
maxReconnectAttempts == 5

\* the events DebateChat listens to
ChatEvents == {"message", "debate_update", "voting_required",
               "validation_required"}

\* "this.listeners = {}"
NoListeners == [e \in ChatEvents |-> <<>>]

\* connect(): a new socket unless one is being opened or is open; a socket
\* that is replaced before its close event came stays behind
connect ==
    IF isConnecting \/ readyState = "open"
       THEN UNCHANGED <<readyState, orphans, created, isConnecting>>
       ELSE /\ readyState' = "connecting"
            /\ orphans' = orphans + (IF readyState = "closing" THEN 1 ELSE 0)
            /\ created' = created + 1
            /\ isConnecting' = TRUE

\* socket.onopen
onopen ==
    /\ readyState = "connecting"
    /\ readyState' = "open"
    /\ isConnecting' = FALSE
    /\ reconnectAttempts' = 0
    /\ scheduled' = [scheduled EXCEPT !.since_open = 0, !.since_reset = 0]
    /\ UNCHANGED <<orphans, created, timers, listeners, gave_up,
                   closed_by_user>>

\* socket.onerror: the connection could not be made, the close event follows
onerror ==
    /\ readyState = "connecting"
    /\ readyState' = "closing"
    /\ isConnecting' = FALSE
    /\ UNCHANGED <<orphans, created, reconnectAttempts, timers, listeners,
                   gave_up, closed_by_user, scheduled>>

\* onclose were it to schedule a reconnection whatever the count
onclose_unbounded ==
    /\ isConnecting' = FALSE
    /\ reconnectAttempts' = reconnectAttempts + 1
    /\ timers' = timers + 1
    /\ gave_up' = FALSE
    /\ scheduled' = [since_open |-> scheduled.since_open + 1,
                     since_reset |-> scheduled.since_reset + 1]

\* the body of socket.onclose
onclose ==
    /\ isConnecting' = FALSE
    /\ IF reconnectAttempts < maxReconnectAttempts
          THEN /\ reconnectAttempts' = reconnectAttempts + 1
               /\ timers' = timers + 1
               /\ gave_up' = FALSE
               /\ scheduled' = [since_open |-> scheduled.since_open + 1,
                                since_reset |-> scheduled.since_reset + 1]
          ELSE /\ gave_up' = TRUE
               /\ UNCHANGED <<reconnectAttempts, timers, scheduled>>

\* the close event of this.socket: the server or the network ended an open
\* connection, or a failed one is done closing
socket_closes ==
    /\ readyState \in {"open", "closing"}
    /\ readyState' = "closed"
    /\ onclose
    /\ UNCHANGED <<orphans, created, listeners, closed_by_user>>

\* the close event of a socket the service no longer holds
orphan_closes ==
    /\ orphans > 0
    /\ orphans' = orphans - 1
    /\ onclose
    /\ UNCHANGED <<readyState, created, listeners, closed_by_user>>

\* a callback scheduled with setTimeout runs connect()
timer_fires ==
    /\ timers > 0
    /\ created < MaxSockets
    /\ timers' = timers - 1
    /\ connect
    /\ UNCHANGED <<reconnectAttempts, listeners, gave_up, closed_by_user,
                   scheduled>>

\* disconnect(): the socket is closed and let go of, its close event comes
\* later
disconnect ==
    /\ reconnectAttempts' = maxReconnectAttempts
    /\ readyState' = "null"
    /\ orphans' = orphans + (IF readyState \in {"connecting", "open",
                                                "closing"} THEN 1 ELSE 0)
    /\ listeners' = NoListeners
    /\ UNCHANGED <<created, isConnecting, timers, gave_up, scheduled>>

\* reconnect(): disconnect(), the count set to 0 and connect() in 1s
reconnect ==
    /\ created + timers < MaxSockets
    /\ reconnectAttempts' = 0
    /\ readyState' = "null"
    /\ orphans' = orphans + (IF readyState \in {"connecting", "open",
                                                "closing"} THEN 1 ELSE 0)
    /\ listeners' = NoListeners
    /\ timers' = timers + 1
    /\ scheduled' = [scheduled EXCEPT !.since_reset = 0]
    /\ UNCHANGED <<created, isConnecting, gave_up>>

\* the state the constructor leaves: its connect() has created a socket
InitSocket ==
    /\ readyState = "connecting"
    /\ orphans = 0
    /\ created = 1
    /\ isConnecting = TRUE
    /\ reconnectAttempts = 0
    /\ timers = 0
    /\ listeners = NoListeners
    /\ gave_up = FALSE
    /\ closed_by_user = FALSE
    /\ scheduled = [since_open |-> 0, since_reset |-> 0]

(***************************************************************************)
(* DebateChat                                                              *)
(***************************************************************************)
\* the handler the subscription effect registers for each event
ChatHandler == [message |-> "handleIncomingMessage",
                debate_update |-> "handleDebateUpdate",
                voting_required |-> "handleVotingRequired",
                validation_required |-> "handleValidationRequired"]

\* the type field a server message may have, "none" for a message without
MessageTypes == ChatEvents \cup {"none"}

\* on(event, callback)
on(ls, event, callback) == [ls EXCEPT ![event] = Append(@, callback)]

\* off(event, callback): the first registration of callback is spliced out;
\* a call without callback looks for undefined and finds nothing
off(ls, event, callback) ==
    LET found == {i \in 1..Len(ls[event]) : ls[event][i] = callback}
    IN  IF found = {} THEN ls
        ELSE LET index == CHOOSE i \in found : \A j \in found : i <= j
             IN  [ls EXCEPT ![event] =
                     SubSeq(@, 1, index - 1) \o SubSeq(@, index + 1, Len(@))]

\* the registrations of the effect
RECURSIVE Subscribe(_, _)
Subscribe(ls, events) ==
    IF events = {} THEN ls
    ELSE LET e == CHOOSE x \in events : TRUE
         IN  Subscribe(on(ls, e, ChatHandler[e]), events \ {e})

\* the clean-up of the effect: off(event) for each event, without callback
RECURSIVE Cleanup(_, _)
Cleanup(ls, events) ==
    IF events = {} THEN ls
    ELSE LET e == CHOOSE x \in events : TRUE
         IN  Cleanup(off(ls, e, "undefined"), events \ {e})

\* the subscription effect runs: at mount, and again, after its clean-up,
\* when websocket or debateId has changed
run_effect ==
    /\ effect_runs < MaxEffectRuns
    /\ effect_runs' = effect_runs + 1
    /\ listeners' = Subscribe(IF effect_runs = 0 THEN listeners
                              ELSE Cleanup(listeners, ChatEvents),
                              ChatEvents)
    /\ UNCHANGED <<chat_messages, validationRequired, received,
                   decision_outcome>>

\* the callbacks socket.onmessage calls for a message of the type given:
\* emit(data.type) when it has one, then emit('message')
Callbacks(ls, type) ==
    (IF type \in ChatEvents THEN ls[type] ELSE <<>>) \o ls["message"]

\* what the calls of handleIncomingMessage among the callbacks append
RECURSIVE Appended(_, _)
Appended(callbacks, data) ==
    IF callbacks = <<>> THEN <<>>
    ELSE (IF Head(callbacks) = "handleIncomingMessage" THEN <<data>>
          ELSE <<>>) \o Appended(Tail(callbacks), data)

\* socket.onmessage for a message that arrives while DebateChat is mounted
onmessage(type) ==
    /\ readyState = "open"
    /\ effect_runs > 0
    /\ Len(received) < MaxReceived
    /\ received' = Append(received, type)
    /\ LET data == [id |-> Len(received) + 1, type |-> type]
           callbacks == Callbacks(listeners, type)
       IN  /\ chat_messages' = chat_messages \o Appended(callbacks, data)
           /\ validationRequired' =
                 (validationRequired
                  \/ \E i \in 1..Len(callbacks) :
                        callbacks[i] = "handleValidationRequired")
    /\ UNCHANGED <<effect_runs, decision_outcome>>

\* send(data): true when the socket is open and the message went out
send == readyState = "open"

\* handleHumanValidation: the decision is sent and the validation cleared
handleHumanValidation ==
    /\ validationRequired
    /\ decision_outcome' = IF send THEN "transmitted" ELSE "dropped"
    /\ validationRequired' = FALSE
    /\ UNCHANGED <<chat_messages, effect_runs, received>>

InitChat ==
    /\ chat_messages = <<>>
    /\ validationRequired = FALSE
    /\ effect_runs = 0
    /\ received = <<>>
    /\ decision_outcome = "none"

(***************************************************************************)
(* Specifications                                                          *)
(***************************************************************************)
\* a manager constructed with any round limit up to the bound
Init == InitDebate(1..MaxRoundLimit) /\ InitGate /\ InitPipeline
        /\ InitWorkflow /\ InitLogger /\ InitOrchestrator
        /\ InitTasks /\ InitVoting({NoPerformance}) /\ InitSocket
        /\ InitChat

\* a manager constructed with the default round limit
InitDefault == InitDebate({DefaultMaxRounds}) /\ InitGate /\ InitPipeline
               /\ InitWorkflow /\ InitLogger /\ InitOrchestrator
               /\ InitTasks /\ InitVoting({NoPerformance}) /\ InitSocket
               /\ InitChat

\* the debate manager on its own
InitializeDebate ==
    /\ \E experts \in SUBSET ExpertIds : initialize_debate(experts)
    /\ UNCHANGED <<gateVars, pipelineVars, workflowVars, loggerVars,
                 orchestratorVars, taskVars, votingVars, socketVars,
                 chatVars>>

ConductRound ==
    /\ \E contents \in [ExpertIds -> Contents], divergenceHigh \in BOOLEAN :
          conduct_round(contents, divergenceHigh)
    /\ UNCHANGED <<gateVars, pipelineVars, workflowVars, loggerVars,
                 orchestratorVars, taskVars, votingVars, socketVars,
                 chatVars>>

NextDebate == InitializeDebate \/ ConductRound

SpecDebate == Init /\ [][NextDebate]_vars

\* the validation manager with concurrent callers
RequestValidation ==
    /\ \E c \in Callers : request_validation(c)
    /\ UNCHANGED <<debateVars, pipelineVars, workflowVars, loggerVars,
                 orchestratorVars, taskVars, votingVars, socketVars,
                 chatVars>>

WaitForHumanDecision ==
    /\ \E c \in Callers : wait_for_human_decision(c)
    /\ UNCHANGED <<debateVars, pipelineVars, workflowVars, loggerVars,
                 orchestratorVars, taskVars, votingVars, socketVars,
                 chatVars>>

ResumeWaiter ==
    /\ \E c \in Callers : resume_waiter(c)
    /\ UNCHANGED <<debateVars, pipelineVars, workflowVars, loggerVars,
                 orchestratorVars, taskVars, votingVars, socketVars,
                 chatVars>>

TimeoutExpires ==
    /\ \E c \in Callers : timeout_expires(c)
    /\ UNCHANGED <<debateVars, pipelineVars, workflowVars, loggerVars,
                 orchestratorVars, taskVars, votingVars, socketVars,
                 chatVars>>

RecordValidation ==
    /\ \E c \in Callers : record_validation(c)
    /\ UNCHANGED <<debateVars, pipelineVars, workflowVars, loggerVars,
                 orchestratorVars, taskVars, votingVars, socketVars,
                 chatVars>>

ReceiveHumanDecision ==
    /\ \E id \in 1..MaxCheckpoints, decision \in DecisionStrings :
          receive_human_decision(id, decision)
    /\ UNCHANGED <<debateVars, pipelineVars, workflowVars, loggerVars,
                 orchestratorVars, taskVars, votingVars, socketVars,
                 chatVars>>

NextValidation ==
    \/ RequestValidation
    \/ WaitForHumanDecision
    \/ ResumeWaiter
    \/ TimeoutExpires
    \/ RecordValidation
    \/ ReceiveHumanDecision

SpecValidation == InitDefault /\ [][NextValidation]_vars

\* the pipeline and the validation manager it calls
ExtractStage ==
    extract_stage
        /\ UNCHANGED <<debateVars, gateVars, workflowVars, loggerVars,
                 orchestratorVars, taskVars, votingVars, socketVars,
                 chatVars>>

ValidateStage ==
    validate_stage
        /\ UNCHANGED <<debateVars, gateVars, workflowVars, loggerVars,
                 orchestratorVars, taskVars, votingVars, socketVars,
                 chatVars>>

RequestHumanValidation ==
    request_human_validation
        /\ UNCHANGED <<debateVars, workflowVars, loggerVars,
                 orchestratorVars, taskVars, votingVars, socketVars,
                 chatVars>>

ProcessDecision ==
    process_decision
        /\ UNCHANGED <<debateVars, gateVars, workflowVars, loggerVars,
                 orchestratorVars, taskVars, votingVars, socketVars,
                 chatVars>>

SynthesisStage ==
    synthesis_stage
        /\ UNCHANGED <<debateVars, gateVars, workflowVars, loggerVars,
                 orchestratorVars, taskVars, votingVars, socketVars,
                 chatVars>>

SharingStage ==
    sharing_stage
        /\ UNCHANGED <<debateVars, gateVars, workflowVars, loggerVars,
                 orchestratorVars, taskVars, votingVars, socketVars,
                 chatVars>>

NextPipeline ==
    \/ ExtractStage
    \/ ValidateStage
    \/ RequestHumanValidation
    \/ ProcessDecision
    \/ SynthesisStage
    \/ SharingStage
    \/ WaitForHumanDecision
    \/ ResumeWaiter
    \/ TimeoutExpires
    \/ RecordValidation
    \/ ReceiveHumanDecision

SpecPipeline == InitDefault /\ [][NextPipeline]_vars

\* one request of the workflow and its kill-switch monitor
Running == {"t1"}

InitializeTrace ==
    /\ \E t \in Running : initialize_trace(t)
    /\ UNCHANGED <<debateVars, gateVars, pipelineVars, loggerVars,
                 orchestratorVars, taskVars, votingVars, socketVars,
                 chatVars>>

MonitorTrace ==
    /\ \E t \in Running : monitor_trace(t)
    /\ UNCHANGED <<debateVars, gateVars, pipelineVars, loggerVars,
                 orchestratorVars, taskVars, votingVars, socketVars,
                 chatVars>>

WorkflowStep ==
    /\ \E t \in Running : workflow_step(t)
    /\ UNCHANGED <<debateVars, gateVars, pipelineVars, loggerVars,
                 orchestratorVars, taskVars, votingVars, socketVars,
                 chatVars>>

FinalizeTrace ==
    /\ \E t \in Running, result \in {"validated", "rejected"} :
          finalize_trace(t, result)
    /\ UNCHANGED <<debateVars, gateVars, pipelineVars, loggerVars,
                 orchestratorVars, taskVars, votingVars, socketVars,
                 chatVars>>

WorkflowError ==
    /\ \E t \in Running : workflow_error(t)
    /\ UNCHANGED <<debateVars, gateVars, pipelineVars, loggerVars,
                 orchestratorVars, taskVars, votingVars, socketVars,
                 chatVars>>

MonitorLoop ==
    /\ \E t \in Running : monitor_loop(t)
    /\ UNCHANGED <<debateVars, gateVars, pipelineVars, loggerVars,
                 orchestratorVars, taskVars, votingVars, socketVars,
                 chatVars>>

MonitorCheck ==
    /\ \E t \in Running, memory_usage \in MemoryReadings :
          monitor_check(t, memory_usage)
    /\ UNCHANGED <<debateVars, gateVars, pipelineVars, loggerVars,
                 orchestratorVars, taskVars, votingVars, socketVars,
                 chatVars>>

NextWorkflow ==
    \/ InitializeTrace
    \/ MonitorTrace
    \/ WorkflowStep
    \/ FinalizeTrace
    \/ WorkflowError
    \/ MonitorLoop
    \/ MonitorCheck

SpecWorkflow == InitDefault /\ [][NextWorkflow]_vars

\* one debate session whose driver asks for the human validation that
\* conduct_round announces ('requires_human_validation': True)
SessionCaller == "c1"

SessionRequestValidation ==
    /\ current_phase = "human_validation"
    /\ request_validation(SessionCaller)
    /\ UNCHANGED <<debateVars, pipelineVars, workflowVars, loggerVars,
                 orchestratorVars, taskVars, votingVars, socketVars,
                 chatVars>>

\* the session is started with both experts, who answer with the same words
SessionInitialize ==
    /\ initialize_debate(ExpertIds)
    /\ UNCHANGED <<gateVars, pipelineVars, workflowVars, loggerVars,
                 orchestratorVars, taskVars, votingVars, socketVars,
                 chatVars>>

SessionConductRound ==
    /\ \E divergenceHigh \in BOOLEAN :
          conduct_round([e \in ExpertIds |-> {"dose", "toxicity"}],
                        divergenceHigh)
    /\ UNCHANGED <<gateVars, pipelineVars, workflowVars, loggerVars,
                 orchestratorVars, taskVars, votingVars, socketVars,
                 chatVars>>

NextSession ==
    \/ SessionInitialize
    \/ SessionConductRound
    \/ SessionRequestValidation
    \/ WaitForHumanDecision
    \/ ResumeWaiter
    \/ TimeoutExpires
    \/ RecordValidation
    \/ ReceiveHumanDecision

SpecSession == Init /\ [][NextSession]_vars

(***************************************************************************)
(* Properties                                                              *)
(***************************************************************************)
CheckpointIds == 1..Len(checkpoints)
OpenCheckpoints == {i \in CheckpointIds : ~checkpoints[i].validated}

\* C1: after conduct_round has returned, the round number is at most the
\* configured round limit.
C1_RoundWithinLimit == current_round <= max_rounds

\* C2: a trace that was killed, or whose request completed normally, never
\* changes its status again.
C2_TerminalOnce ==
    [][\A t \in Traces :
          (status[t] = "killed" \/ wf_pc[t] = "returned")
             => status'[t] = status[t]]_vars

\* C3: once the kill switch has marked a trace killed, the workflow logs no
\* further agent response for it and does not change its validation status.
C3_NoMutationAfterKill ==
    [][\A t \in Traces :
          status[t] = "killed"
             => /\ spans'[t] = spans[t]
                /\ validation_status'[t] = validation_status[t]]_vars

\* C4: at any time at most one validation checkpoint is open (created and
\* not yet resolved).
C4_AtMostOneOpen == Cardinality(OpenCheckpoints) <= 1

\* C5: a checkpoint is resolved once: the result of its future, once set,
\* is never replaced, a resolved checkpoint never changes, it is filed once
\* in the history, and a checkpoint resolved by the human carries the
\* result of its future.
C5_ResolvedOnce ==
    /\ [](\A i \in CheckpointIds :
            /\ Cardinality({k \in 1..Len(validation_history) :
                               validation_history[k] = i})
                  = (IF checkpoints[i].validated THEN 1 ELSE 0)
            /\ (checkpoints[i].validated
                  /\ checkpoints[i].resolved_by = "human")
                 => checkpoints[i].decision = futures[i])
    /\ [][\A i \in CheckpointIds :
            /\ futures[i] \in DecisionValues => futures'[i] = futures[i]
            /\ checkpoints[i].validated => checkpoints'[i] = checkpoints[i]
         ]_vars

\* a second decision for a checkpoint was refused and the checkpoint is
\* resolved by the first one
C5_Witness ==
    \E i \in CheckpointIds :
        /\ checkpoints[i].validated
        /\ checkpoints[i].resolved_by = "human"
        /\ hv_error = "InvalidStateError"

\* C6: a checkpoint resolved by the timeout is resolved to more_debate with
\* the timeout written in its notes, never to approve.
C6_TimeoutConservative ==
    /\ \A c \in Callers :
          hv_pc[c] = "timed_out" => hv_decision[c] = "more_debate"
    /\ \A i \in CheckpointIds :
          checkpoints[i].resolved_by = "timeout"
             => /\ checkpoints[i].decision = "more_debate"
                /\ checkpoints[i].decision # "approve"
                /\ checkpoints[i].validator_notes = TimeoutNotes

C6_Witness ==
    \E i \in CheckpointIds :
        checkpoints[i].validated /\ checkpoints[i].resolved_by = "timeout"

\* C7: the pipeline is in or past its synthesis stage only when its
\* checkpoint was resolved by a human decision of approve or override.
C7_SynthesisOnlyAfterApproval ==
    (pl_pc \in {"checkpoint_passed", "synthesis", "sharing"}
       \/ "synthesis" \in stage_results)
    => /\ human_decision \in {"approve", "override"}
       /\ hv_checkpoint[PipelineCaller] \in CheckpointIds
       /\ checkpoints[hv_checkpoint[PipelineCaller]].validated
       /\ checkpoints[hv_checkpoint[PipelineCaller]].resolved_by = "human"
       /\ checkpoints[hv_checkpoint[PipelineCaller]].decision
             = human_decision

C7_Witness == pl_pc = "synthesis" /\ "synthesis" \in stage_results

\* C8: a pipeline whose checkpoint was resolved with override goes on to
\* the synthesis stage.
C8_OverrideProceeds ==
    human_decision = "override"
       => pl_pc \in {"checkpoint_passed", "synthesis", "sharing"}

\* the decision of the last checkpoint that was resolved
LastResolution ==
    IF validation_history = <<>> THEN "None"
    ELSE checkpoints[validation_history[Len(validation_history)]].decision

\* C9: once the checkpoint of a session in HUMAN_VALIDATION is resolved with
\* more_debate or clarification (the timeout included), the next round step,
\* taken below the round limit, puts the session back in ARGUMENTATION with
\* the round number one higher.
C9_MoreDebateReturns ==
    [][(/\ current_phase = "human_validation"
        /\ current_round < max_rounds
        /\ OpenCheckpoints = {}
        /\ LastResolution \in {"more_debate", "clarification"}
        /\ current_round' # current_round)
          => (/\ current_phase' = "argumentation"
              /\ current_round' = current_round + 1)]_vars

ListedTransitions ==
    {<<"initialization", "opening_statements">>,
     <<"opening_statements", "argumentation">>,
     <<"argumentation", "voting">>,
     <<"voting", "human_validation">>,
     <<"human_validation", "synthesis">>,
     <<"human_validation", "argumentation">>,
     <<"synthesis", "completed">>}
    \cup {<<p, "killed">> : p \in DebatePhase}

\* C10: every change of the phase of a session is one of the listed
\* transitions.
C10_ListedTransitionsOnly ==
    [][current_phase' # current_phase
          => <<current_phase, current_phase'>> \in ListedTransitions]_vars

\* the debate manager with answers whose consensus takes the values
\* 0, 3/4, 4/5, 6/7 and 1
RichContents == {{"dose", "dosage"}, {"toxicity", "efficacy"},
                 {"toxicity", "efficacy", "dosage"}}

ConsensusInitialize ==
    /\ \E experts \in {{"e1"}, ExpertIds} : initialize_debate(experts)
    /\ current_phase = "initialization"
    /\ UNCHANGED <<gateVars, pipelineVars, workflowVars, loggerVars,
                 orchestratorVars, taskVars, votingVars, socketVars,
                 chatVars>>

ConsensusConductRound ==
    /\ \E contents \in [ExpertIds -> RichContents] :
          conduct_round(contents, FALSE)
    /\ UNCHANGED <<gateVars, pipelineVars, workflowVars, loggerVars,
                 orchestratorVars, taskVars, votingVars, socketVars,
                 chatVars>>

NextConsensus == ConsensusInitialize \/ ConsensusConductRound

SpecConsensus == Init /\ [][NextConsensus]_vars

\* C11: an argumentation step that ends with round >= 3 or with a consensus
\* of at least 0.8 (0.8 included) leaves the session in VOTING.
C11_VotingThresholdsInclusive ==
    [][(/\ current_phase = "argumentation"
        /\ current_round' = current_round + 1
        /\ current_round' <= max_rounds
        /\ \/ current_round' >= 3
           \/ LET consensus == detect_consensus(messages')
              IN  consensus[1] * 10 >= 8 * consensus[2])
          => current_phase' = "voting"]_vars

\* C12: the step that brings the round number to the round limit while the
\* session is in ARGUMENTATION forces the session into VOTING and flags the
\* transition for audit.
C12_LimitForcesVote ==
    [][(/\ current_phase = "argumentation"
        /\ current_round' = current_round + 1
        /\ current_round' = max_rounds)
          => (/\ current_phase' = "voting"
              /\ forced_conclusion' # "none")]_vars

\* C13: a round step taken in VOTING (a VOTING phase entered by the voting
\* rule, not by a forced conclusion) ends with the session in
\* HUMAN_VALIDATION.
C13_VotingEndsInValidation ==
    [][(/\ current_phase = "voting"
        /\ forced_conclusion = "none"
        /\ current_round' = current_round + 1)
          => current_phase' = "human_validation"]_vars

\* C20: a session that has left INITIALIZATION has at least two experts
\* registered, and a session still in INITIALIZATION has none.
C20_InsufficientParticipantsRefused ==
    /\ current_phase # "initialization" => Cardinality(participants) >= 2
    /\ current_phase = "initialization" => participants = {}

\* C15: while the session is in HUMAN_VALIDATION with an open checkpoint
\* for which no decision has been sent, no step other than a restart of the
\* debate changes the phase, the round number or the messages.
C15_NoAdvanceWhileAwaitingDecision ==
    [][(/\ current_phase = "human_validation"
        /\ current_phase' # "opening_statements"
        /\ current_round < max_rounds
        /\ \E i \in OpenCheckpoints : futures[i] \in {"none", "pending"})
          => UNCHANGED <<current_phase, current_round, messages>>]_vars

\* a debate session run under a trace that the kill switch monitors
SessionTrace == "t1"

LongRunCap == 52

MonitoredInitialize ==
    /\ current_phase = "initialization"
    /\ initialize_debate(ExpertIds)
    /\ UNCHANGED <<gateVars, pipelineVars, workflowVars, loggerVars,
                 orchestratorVars, taskVars, votingVars, socketVars,
                 chatVars>>

MonitoredConductRound ==
    /\ current_round < LongRunCap
    /\ \E divergenceHigh \in BOOLEAN :
          conduct_round_call([e \in ExpertIds |-> {"dose", "toxicity"}],
                             divergenceHigh)
    /\ UNCHANGED <<gateVars, pipelineVars, workflowVars, loggerVars,
                 orchestratorVars, taskVars, votingVars, socketVars,
                 chatVars>>

NextMonitoredSession ==
    \/ MonitoredInitialize
    \/ MonitoredConductRound
    \/ InitializeTrace
    \/ MonitorTrace
    \/ MonitorLoop
    \/ MonitorCheck

SpecMonitoredSession == InitDefault /\ [][NextMonitoredSession]_vars

\* C14: a round step on a session whose trace the kill switch has killed
\* leaves the round number, the phase and the messages unchanged.
C14_NoAdvanceWhenTerminal ==
    [][(status[SessionTrace] = "killed" /\ current_phase # "initialization")
          => UNCHANGED <<current_round, current_phase, messages>>]_vars

\* C17: with the default limit of 50, a monitor poll of an active session
\* whose round count has reached 51 kills it with MAX_ITERATIONS_EXCEEDED.
C17_RoundCountKill ==
    [][(/\ current_round >= max_iterations + 1
        /\ status[SessionTrace] = "active"
        /\ mon_pc[SessionTrace] = "sleeping"
        /\ mon_pc'[SessionTrace] # "sleeping")
          => (/\ status'[SessionTrace] = "killed"
              /\ kill_events'[SessionTrace] # <<>>
              /\ kill_events'[SessionTrace][Len(kill_events'[SessionTrace])]
                    .reason = "MAX_ITERATIONS_EXCEEDED")]_vars

\* a logger that receives the entries of one monitored trace
LogAgentInteraction ==
    /\ mon_pc[SessionTrace] # "none"
    /\ \E input_hash \in InputHashes :
          log_agent_interaction(SessionTrace, input_hash)
    /\ UNCHANGED <<debateVars, gateVars, pipelineVars, orchestratorVars,
                 taskVars, votingVars, socketVars, chatVars>>

NextLogger ==
    \/ InitializeTrace
    \/ MonitorTrace
    \/ LogAgentInteraction
    \/ MonitorLoop
    \/ MonitorCheck

SpecLogger == InitDefault /\ [][NextLogger]_vars

\* the last LoopWindow logged inputs have fewer than MinDistinctInputs hashes
Looping ==
    /\ Len(trace_storage) >= LoopWindow
    /\ Cardinality(RecentInputs(trace_storage, LoopWindow))
          < MinDistinctInputs

\* C16: once the last 10 logged inputs have only 2 distinct hashes, the next
\* monitor poll of the active trace leaves it killed.
C16_LoopKilledWithinPoll ==
    [][(/\ Looping
        /\ status[SessionTrace] = "active"
        /\ mon_pc[SessionTrace] = "sleeping"
        /\ mon_pc'[SessionTrace] # "sleeping")
          => status'[SessionTrace] = "killed"]_vars

LastKill(t) == kill_events[t][Len(kill_events[t])]

OpeningMessages(msgs, e) ==
    {i \in 1..Len(msgs) :
        msgs[i].agent_id = e /\ msgs[i].phase = "opening_statements"}

\* C21: when the session moves from OPENING_STATEMENTS to ARGUMENTATION,
\* every expert participant has exactly one opening message in the session.
C21_OneOpeningMessageEach ==
    [][(/\ current_phase = "opening_statements"
        /\ current_phase' = "argumentation")
          => \A e \in participants' :
                Cardinality(OpeningMessages(messages', e)) = 1]_vars

\* C25: a round step taken in OPENING_STATEMENTS or VOTING leaves the round
\* number unchanged.
C25_RoundChangesInArgumentationOnly ==
    [][(current_phase \in {"opening_statements", "voting"})
          => (current_round' = current_round)]_vars

\* the expert messages of the window detect_consensus evaluates
ExpertsInWindow(msgs) ==
    {i \in 1..Len(Last3(msgs)) : Last3(msgs)[i].role = "expert"}

ChallengeProviders ==
    /\ \E provider_ids \in SUBSET ProviderIds :
          challenge_providers(provider_ids)
    /\ UNCHANGED <<debateVars, gateVars, pipelineVars, workflowVars,
                   loggerVars, taskVars, votingVars, socketVars, chatVars>>

GenerateWithTimeout ==
    /\ \E p \in ProviderIds, outcome \in {"ok", "failed", "timeout"} :
          _generate_with_timeout(p, outcome)
    /\ UNCHANGED <<debateVars, gateVars, pipelineVars, workflowVars,
                   loggerVars, taskVars, votingVars, socketVars, chatVars>>

AwaitTask ==
    /\ await_task
    /\ UNCHANGED <<debateVars, gateVars, pipelineVars, workflowVars,
                   loggerVars, taskVars, votingVars, socketVars, chatVars>>

ChallengeReturn ==
    /\ challenge_return
    /\ UNCHANGED <<debateVars, gateVars, pipelineVars, workflowVars,
                   loggerVars, taskVars, votingVars, socketVars, chatVars>>

NextOrchestrator ==
    \/ ChallengeProviders
    \/ GenerateWithTimeout
    \/ AwaitTask
    \/ ChallengeReturn

SpecOrchestrator == InitDefault /\ [][NextOrchestrator]_vars

\* C22: a provider whose call failed or timed out was called a second time
\* (one retry) before it is recorded as failed for the round, and the round
\* returns with the other providers' results.
C22_RetriedOnceThenDegraded ==
    \A p \in ProviderIds :
       responses[p] = "error" => attempts[p] = 2

\* two requests for the next round of one session, run as coroutines
ConcurrentInitialize ==
    /\ current_phase = "initialization"
    /\ \A k \in Callers : cr_pc[k] = "idle"
    /\ initialize_debate(ExpertIds)
    /\ UNCHANGED <<gateVars, pipelineVars, workflowVars, loggerVars,
                   orchestratorVars, taskVars, votingVars, socketVars,
                 chatVars>>

ConductRoundEnter ==
    /\ current_phase # "initialization"
    /\ \E k \in Callers : conduct_round_enter(k, FALSE)
    /\ UNCHANGED <<gateVars, pipelineVars, workflowVars, loggerVars,
                   orchestratorVars, votingVars, socketVars, chatVars>>

ConductRoundResume ==
    /\ \E k \in Callers :
          conduct_round_resume(k, {"dose", "toxicity"}, FALSE)
    /\ UNCHANGED <<gateVars, pipelineVars, workflowVars, loggerVars,
                   orchestratorVars, votingVars, socketVars, chatVars>>

ConductRoundVoted ==
    /\ \E k \in Callers : conduct_round_voted(k)
    /\ UNCHANGED <<gateVars, pipelineVars, workflowVars, loggerVars,
                   orchestratorVars, votingVars, socketVars, chatVars>>

NextConcurrent ==
    \/ ConcurrentInitialize
    \/ ConductRoundEnter
    \/ ConductRoundResume
    \/ ConductRoundVoted

SpecConcurrent == InitDefault /\ [][NextConcurrent]_vars

\* C23: two concurrent round requests act one after the other: no expert
\* has two messages for the same step (same round and phase).
C23_RoundsSerialized ==
    \A i, j \in 1..Len(messages) :
       i < j => ~(/\ messages[i].agent_id = messages[j].agent_id
                  /\ messages[i].round = messages[j].round
                  /\ messages[i].phase = messages[j].phase)

\* two monitored traces side by side
InitializeAnyTrace ==
    /\ \E t \in Traces : initialize_trace(t)
    /\ UNCHANGED <<debateVars, gateVars, pipelineVars, loggerVars,
                   orchestratorVars, taskVars, votingVars, socketVars,
                 chatVars>>

MonitorAnyTrace ==
    /\ \E t \in Traces : monitor_trace(t)
    /\ UNCHANGED <<debateVars, gateVars, pipelineVars, loggerVars,
                   orchestratorVars, taskVars, votingVars, socketVars,
                 chatVars>>

MonitorLoopAny ==
    /\ \E t \in Traces : monitor_loop(t)
    /\ UNCHANGED <<debateVars, gateVars, pipelineVars, loggerVars,
                   orchestratorVars, taskVars, votingVars, socketVars,
                 chatVars>>

MonitorCheckAny ==
    /\ \E t \in Traces, memory_usage \in MemoryReadings :
          monitor_check(t, memory_usage)
    /\ UNCHANGED <<debateVars, gateVars, pipelineVars, loggerVars,
                   orchestratorVars, taskVars, votingVars, socketVars,
                 chatVars>>

NextTraces ==
    \/ InitializeAnyTrace
    \/ MonitorAnyTrace
    \/ MonitorLoopAny
    \/ MonitorCheckAny

SpecTraces == InitDefault /\ [][NextTraces]_vars

InitVotingSystem ==
    /\ InitDebate({DefaultMaxRounds}) /\ InitGate /\ InitPipeline
    /\ InitWorkflow /\ InitLogger /\ InitOrchestrator /\ InitTasks
    /\ InitVoting(Performances) /\ InitSocket /\ InitChat

ConductVote ==
    /\ \E voters \in SUBSET VoterIds \ {{}} :
          \E raw \in [voters -> RawScores] :
             \E silent \in {{}} \cup {{v} : v \in voters} :
                conduct_vote(voters, raw, silent)
    /\ UNCHANGED <<debateVars, gateVars, pipelineVars, workflowVars,
                   loggerVars, orchestratorVars, taskVars, socketVars,
                 chatVars>>

NextVoting == ConductVote

SpecVoting == InitVotingSystem /\ [][NextVoting]_vars

\* C26: in every recorded vote no voter has a vote on a message it wrote,
\* every vote is on one of the messages put to the vote, and the author of a
\* message is not among the voters its final score is computed from
C26_NoSelfVotes ==
    \A i \in 1..Len(voting_history) :
       LET r == voting_history[i]
       IN  /\ \A v \in DOMAIN r.voting_matrix :
                \A m \in DOMAIN r.voting_matrix[v] :
                   /\ m \in DOMAIN MessageAuthor
                   /\ MessageAuthor[m] # v
           /\ \A m \in DOMAIN r.final_scores :
                MessageAuthor[m] \notin r.final_scores[m].voters

\* a vote was recorded in which e1, the author of m1, voted on other messages
\* and m1 has a final score from the other voters
C26_Witness ==
    /\ vote_outcome = "recorded"
    /\ voting_history # <<>>
    /\ LET r == voting_history[Len(voting_history)]
       IN  /\ "e1" \in DOMAIN r.voting_matrix
           /\ DOMAIN r.voting_matrix["e1"] = {"m2", "m3"}
           /\ "m1" \in DOMAIN r.final_scores
           /\ r.final_scores["m1"].voters = {"e2", "judge"}

\* C27: the average_score of every message with votes is the sum of
\* weight * score over its voters divided by the sum of their weights, and
\* lies between 0 and 1
C27_WeightedMean ==
    \A i \in 1..Len(voting_history) :
       \A m \in DOMAIN voting_history[i].final_scores :
          LET f == voting_history[i].final_scores[m]
              weights == [v \in f.voters |->
                             get_voter_weight(agent_performance, v)]
              sum_weights ==
                  ScoreSum([v \in f.voters |->
                               [n \in {m} |-> [score |-> weights[v]]]],
                           m, f.voters, FALSE)
          IN  /\ f.average_score[1] * (sum_weights * 100)
                    = f.total_score * f.average_score[2]
              /\ 0 <= f.average_score[1]
              /\ f.average_score[1] <= f.average_score[2]

\* C28: the consensus_level of every recorded vote is 1 minus the doubled
\* variance (capped at 1) of the scores of each message with votes,
\* averaged over those messages, and lies between 0 and 1
C28_ConsensusFormula ==
    \A i \in 1..Len(voting_history) :
       LET r == voting_history[i]
           ms == ScoredMessages(r.voting_matrix)
           claimed == ConsensusOver(r.voting_matrix, ms)
       IN  /\ ms # {}
              => r.consensus_level[1] * claimed[2]
                    = claimed[1] * r.consensus_level[2]
           /\ 0 <= r.consensus_level[1]
           /\ r.consensus_level[1] <= r.consensus_level[2]

\* C29: a conduct_vote call in which a voter gave no response still ends
\* with a vote record
C29_PartialVoteRecorded ==
    vote_missing # {}
        => /\ vote_outcome = "recorded"
           /\ voting_history # <<>>

C32_Deterministic ==
    [][(/\ Len(messages) >= 3
        /\ [i \in 1..3 |-> Last3(messages')[i].content]
              = [i \in 1..3 |-> Last3(messages)[i].content])
          => (detect_consensus(messages')[1] * detect_consensus(messages)[2]
                = detect_consensus(messages)[1]
                     * detect_consensus(messages')[2])]_vars

\* a session whose latest round left the window with the contents it had
\* before that round, with an estimate above 0
C32_Witness ==
    /\ Len(messages) >= 5
    /\ LET l == Len(messages)
       IN  /\ \A i \in 0..2 :
                 messages[l - i].content = messages[l - 2 - i].content
           /\ messages[l].round # messages[l - 2].round
           /\ messages[l].content # messages[l - 1].content
           /\ detect_consensus(messages)[1] > 0

\* C33: once the checkpoint of a session in HUMAN_VALIDATION is resolved, by
\* a decision or by the timeout, the next round step, taken below the round
\* limit, takes the session out of HUMAN_VALIDATION.
C33_LeavesValidationOnceResolved ==
    [][(/\ current_phase = "human_validation"
        /\ validation_history # <<>>
        /\ OpenCheckpoints = {}
        /\ current_round < max_rounds
        /\ current_round' # current_round)
          => (current_phase' # "human_validation")]_vars

\* a debate session that waits for the human under a trace that the kill
\* switch monitors; the run is followed for MaxPolls polls, which is less
\* than the ValidationTimeout seconds after which a wait is given up, so no
\* wait times out in it
NextSuspendedSession ==
    \/ MonitoredInitialize
    \/ SessionConductRound
    \/ SessionRequestValidation
    \/ WaitForHumanDecision
    \/ ReceiveHumanDecision
    \/ ResumeWaiter
    \/ RecordValidation
    \/ InitializeTrace
    \/ MonitorTrace
    \/ MonitorLoop
    \/ MonitorCheck

SpecSuspendedSession == InitDefault /\ [][NextSuspendedSession]_vars

\* C34: under the default configuration a session that is waiting for the
\* human at an open checkpoint, less than 300s after it was started, is not
\* killed by the kill switch for the time that has elapsed.
C34_WaitNotKilled ==
    [][(/\ current_phase = "human_validation"
        /\ hv_pc[SessionCaller] = "waiting"
        /\ futures[hv_checkpoint[SessionCaller]] = "pending"
        /\ status[SessionTrace] = "active"
        /\ duration_ms[SessionTrace] < ValidationTimeout * 1000)
          => ~(/\ status'[SessionTrace] = "killed"
               /\ kill_events'[SessionTrace][1].reason
                     = "MAX_DURATION_EXCEEDED")]_vars

\* C35: no decision sent for a pending checkpoint is refused for its value:
\* receive_human_decision never ends in the KeyError of a decision string
\* that names no member of ValidationDecision.
C35_DecisionValuesAccepted == hv_error # "KeyError"

\* a WebSocketService and the calls made on it from outside
SocketOpens ==
    /\ onopen
    /\ UNCHANGED <<debateVars, gateVars, pipelineVars, workflowVars,
                   loggerVars, orchestratorVars, taskVars, votingVars,
                   chatVars>>

SocketError ==
    /\ onerror
    /\ UNCHANGED <<debateVars, gateVars, pipelineVars, workflowVars,
                   loggerVars, orchestratorVars, taskVars, votingVars,
                   chatVars>>

SocketCloses ==
    /\ socket_closes
    /\ UNCHANGED <<debateVars, gateVars, pipelineVars, workflowVars,
                   loggerVars, orchestratorVars, taskVars, votingVars,
                   chatVars>>

OrphanCloses ==
    /\ orphan_closes
    /\ UNCHANGED <<debateVars, gateVars, pipelineVars, workflowVars,
                   loggerVars, orchestratorVars, taskVars, votingVars,
                   chatVars>>

TimerFires ==
    /\ timer_fires
    /\ UNCHANGED <<debateVars, gateVars, pipelineVars, workflowVars,
                   loggerVars, orchestratorVars, taskVars, votingVars,
                   chatVars>>

\* connect() called from outside
CallConnect ==
    /\ created < MaxSockets
    /\ connect
    /\ closed_by_user' = FALSE
    /\ UNCHANGED <<reconnectAttempts, timers, listeners, gave_up, scheduled>>
    /\ UNCHANGED <<debateVars, gateVars, pipelineVars, workflowVars,
                   loggerVars, orchestratorVars, taskVars, votingVars,
                   chatVars>>

CallDisconnect ==
    /\ disconnect
    /\ closed_by_user' = TRUE
    /\ UNCHANGED <<debateVars, gateVars, pipelineVars, workflowVars,
                   loggerVars, orchestratorVars, taskVars, votingVars,
                   chatVars>>

CallReconnect ==
    /\ reconnect
    /\ closed_by_user' = FALSE
    /\ UNCHANGED <<debateVars, gateVars, pipelineVars, workflowVars,
                   loggerVars, orchestratorVars, taskVars, votingVars,
                   chatVars>>

NextSocket ==
    \/ SocketOpens
    \/ SocketError
    \/ SocketCloses
    \/ OrphanCloses
    \/ TimerFires
    \/ CallConnect
    \/ CallDisconnect
    \/ CallReconnect

SpecSocket == InitDefault /\ [][NextSocket]_vars

\* a DebateChat on a WebSocketService whose connection comes and goes
RunEffect ==
    /\ run_effect
    /\ UNCHANGED <<readyState, orphans, created, isConnecting,
                   reconnectAttempts, timers, gave_up, closed_by_user,
                   scheduled>>
    /\ UNCHANGED <<debateVars, gateVars, pipelineVars, workflowVars,
                   loggerVars, orchestratorVars, taskVars, votingVars>>

ServerMessage ==
    /\ \E type \in MessageTypes : onmessage(type)
    /\ UNCHANGED <<debateVars, gateVars, pipelineVars, workflowVars,
                   loggerVars, orchestratorVars, taskVars, votingVars,
                   socketVars>>

HumanValidation ==
    /\ handleHumanValidation
    /\ UNCHANGED <<debateVars, gateVars, pipelineVars, workflowVars,
                   loggerVars, orchestratorVars, taskVars, votingVars,
                   socketVars>>

NextChat ==
    \/ SocketOpens
    \/ SocketError
    \/ SocketCloses
    \/ TimerFires
    \/ RunEffect
    \/ ServerMessage
    \/ HumanValidation

SpecChat == InitDefault /\ [][NextChat]_vars

\* C36: a step of DebateChat that clears the pending validation is one in
\* which the decision went out over the WebSocket.
C36_ClearedOnlyIfTransmitted ==
    [][(validationRequired /\ ~validationRequired')
          => (decision_outcome' = "transmitted")]_vars

\* C37: as long as disconnect() is the last call made on the service from
\* outside, the service creates no new socket.
C37_NoSocketAfterDisconnect ==
    [][(closed_by_user /\ closed_by_user') => (created' = created)]_vars

\* C38 as stated: no more than maxReconnectAttempts reconnections are
\* scheduled since the last successful open, reconnectAttempts never exceeds
\* maxReconnectAttempts, and a close that finds the count at the maximum
\* gives up (max_reconnect_attempts) and schedules nothing.
C38_BoundedSinceOpen ==
    [][/\ scheduled'.since_open <= maxReconnectAttempts
       /\ reconnectAttempts' <= maxReconnectAttempts
       /\ (/\ reconnectAttempts = maxReconnectAttempts
           /\ (orphans' < orphans \/ readyState' = "closed"))
             => (gave_up' /\ timers' = timers)]_vars

\* C38: no more than maxReconnectAttempts reconnections are scheduled since
\* the last successful open or call of reconnect(), reconnectAttempts never
\* exceeds maxReconnectAttempts, and a close that finds the count at the
\* maximum gives up (max_reconnect_attempts) and schedules nothing.
C38_BoundedSinceReset ==
    [][/\ scheduled'.since_reset <= maxReconnectAttempts
       /\ reconnectAttempts' <= maxReconnectAttempts
       /\ (/\ reconnectAttempts = maxReconnectAttempts
           /\ (orphans' < orphans \/ readyState' = "closed"))
             => (gave_up' /\ timers' = timers)]_vars

\* the service gave up after five reconnections that all failed
C38_Witness ==
    /\ gave_up
    /\ scheduled.since_reset = maxReconnectAttempts
    /\ reconnectAttempts = maxReconnectAttempts
    /\ ~closed_by_user
    /\ readyState = "closed"
    /\ timers = 0

\* C39: once the subscription effect has run, however many times, each of
\* the four events has exactly one handler of DebateChat on the service.
C39_OneHandlerEach ==
    effect_runs >= 1 => \A e \in ChatEvents : Len(listeners[e]) = 1

\* C40: every server message without a type or of type message is in the
\* message list exactly once, and no message of type debate_update,
\* voting_required or validation_required is in it.
C40_AppendedExactlyOnce ==
    \A id \in 1..Len(received) :
       LET entries == {i \in 1..Len(chat_messages) : chat_messages[i].id = id}
       IN  Cardinality(entries)
              = IF received[id] \in {"none", "message"} THEN 1 ELSE 0

====
